---- MODULE Spec2Model ----
(***************************************************************************)
(* Model of the ingestion pipeline of the DataHaven indexer:               *)
(* BlockchainIndexer.index / fetchBlockData (src/src/db/indexer.ts) and    *)
(* IndexerDatabase (src/src/config.ts): the fetch window, the per-height   *)
(* normalise / insert / progress / callback steps, the failure path, and   *)
(* the gap detector; of the retry helpers and error classifiers of        *)
(* src/src/utils/retry.ts; and of the command line of src/src/index.ts.   *)
(***************************************************************************)
EXTENDS Integers, Sequences, FiniteSets, TLC

\* ---------------------------------------------------------------- bounds
MaxHeight == 2      \* chain heights are 0..MaxHeight
MaxConc == 2        \* caller-supplied concurrency is MinConc..MaxConc
MaxRuns == 2        \* invocations of index() in one behaviour
GapMaxHeight == 9   \* findMissingBlocks alone: heights are 0..GapMaxHeight
MaxFailures == 3    \* retryWithBackoff alone: failures of the operation in one call
MaxAttemptsOption == 3   \* supplied maxAttempts is 1..MaxAttemptsOption
MaxDelayOption == 3      \* supplied initialDelay and maxDelay are 1..MaxDelayOption
MaxMultiplierOption == 2 \* supplied backoffMultiplier is 0..MaxMultiplierOption
MaxEvents == 3      \* the success scan alone: events of the block
MaxTxIndex == 1     \* the success scan alone: extrinsic indexes are 0..MaxTxIndex
MaxArgs == 3        \* argument decoding alone: declared arguments of the call

Heights == 0..MaxHeight
MinConc == 0 - 1
Concurrencies == MinConc..MaxConc

\* ------------------------------------------------------- remote chain data
\* block.extrinsics.length and allEvents.length of the block at height h.
ExtrinsicCount(h) == h % 2
EventCount(h) == (2 * h) % 3

VARIABLES
    blocks,           \* blocks collection: height -> number of documents
    extrinsics,       \* extrinsics collection: height -> number of inserted batches
    events,           \* events collection: height -> number of inserted batches
    scanProgress,     \* scan_progress collection: {} or {the chain's document}
    latestBlock,      \* the chain tip the node reports
    pc,               \* position of index()
    options,          \* the IndexerOptions of the current invocation
    startBlock, endBlock, currentBlock,
    fetchQueue,       \* the window: sequence of [blockNum, st]
    blockNum,         \* the height taken from the head of the window
    blocksIndexed, extrinsicsIndexed, eventsIndexed,   \* local counters
    missingBlocks,    \* result of findMissingBlocks at the start of the invocation
    thrown,           \* the error caught by the catch block of index()
    rejectedWith,     \* the error index() rejected with
    log,              \* history: store operations issued in this invocation
    skipped,          \* history: heights skipped as pruned in this invocation
    prevSkipped,      \* history: heights skipped as pruned in the previous invocation
    prevFailed,       \* history: {} or {h}: this invocation repeats, with the same options,
                      \* one that failed while persisting height h
    startProgress,    \* history: scanProgress when the invocation started
    runs,             \* number of invocations started
    classified,       \* an error and what the two classifiers of retry.ts say of it
    retry,            \* a call of retryWithBackoff (direct, or through
                      \* retryOnNetworkError or fetchBlockData)
    cli,              \* the command line main() was started with (index.ts)
    scan,             \* the success scan of one extrinsic over a block's events
    decode            \* the argument decoding of one extrinsic

vars == <<blocks, extrinsics, events, scanProgress, latestBlock, pc, options,
          startBlock, endBlock, currentBlock, fetchQueue, blockNum,
          blocksIndexed, extrinsicsIndexed, eventsIndexed, missingBlocks, thrown,
          rejectedWith, log, skipped, prevSkipped, prevFailed, startProgress, runs,
          classified, retry, cli, scan, decode>>

store == <<blocks, extrinsics, events, scanProgress>>
locals == <<startBlock, endBlock, currentBlock, blocksIndexed, extrinsicsIndexed,
            eventsIndexed, missingBlocks>>
invocation == <<options, prevSkipped, prevFailed, startProgress, runs>>
utils == <<classified, retry, cli, scan, decode>>

The(S) == CHOOSE x \in S : TRUE

\* ------------------------------------------------------------ utils/retry.ts
\* An error is [message, code]. message is the set of the phrases below that
\* error.message contains once lower-cased ({} for a message with none of
\* them, or no message); code is error.code, "" standing for an absent or
\* falsy code and "4003" for the number 4003.
NetworkPhrases ==
    {"timeout", "timed out", "econnrefused", "econnreset", "enotfound", "enetunreach",
     "disconnected", "websocket is not connected", "abnormal closure",
     "connection closed", "socket hang up", "no response received"}
PrunedPhrases == {"state already discarded", "unknown block"}
NetworkCodes == {"ECONNREFUSED", "ECONNRESET", "ETIMEDOUT", "ENOTFOUND"}
PrunedCode == "4003"
Codes == {"", "-32603", PrunedCode} \cup NetworkCodes
Errors == [message : SUBSET (NetworkPhrases \cup PrunedPhrases), code : Codes]

isStatePrunedError(error) ==
    \/ "state already discarded" \in error.message
    \/ "unknown block" \in error.message
    \/ error.code = PrunedCode

isNetworkError(error) ==
    \/ error.message \cap NetworkPhrases # {}
    \/ error.code \in NetworkCodes

NoError == [message |-> {}, code |-> ""]
NoClassification == [error |-> NoError, done |-> FALSE, network |-> FALSE, pruned |-> FALSE]

\* DEFAULT_RETRY_OPTIONS and the options retryOnNetworkError passes. An
\* options field is {} when not supplied, else {value}; maxAttempts = {}
\* after the merge stands for Infinity.
DefaultInitialDelay == 1000
DefaultMaxDelay == 60000
DefaultBackoffMultiplier == 2
NetworkInitialDelay == 60000
NetworkMaxDelay == 60000
NetworkBackoffMultiplier == 1
Field(supplied, default) == IF supplied # {} THEN The(supplied) ELSE default
MergeOptions(options_) ==
    [maxAttempts |-> options_.maxAttempts,
     initialDelay |-> Field(options_.initialDelay, DefaultInitialDelay),
     maxDelay |-> Field(options_.maxDelay, DefaultMaxDelay),
     backoffMultiplier |-> Field(options_.backoffMultiplier, DefaultBackoffMultiplier),
     shouldRetry |-> Field(options_.shouldRetry, "always")]
NetworkRetryOptionsDefaults ==
    [maxAttempts |-> {}, initialDelay |-> {}, maxDelay |-> {}, backoffMultiplier |-> {},
     shouldRetry |-> {"isNetworkError"}]
NetworkRetryOptions ==
    [maxAttempts |-> {},
     initialDelay |-> {NetworkInitialDelay},
     maxDelay |-> {NetworkMaxDelay},
     backoffMultiplier |-> {NetworkBackoffMultiplier},
     shouldRetry |-> {"isNetworkError"}]
NoRetry ==
    [caller |-> "none", opts |-> MergeOptions(NetworkRetryOptions), pc |-> "idle",
     attempt |-> 0, delay |-> 0, calls |-> 0, errors |-> <<>>, waits |-> <<>>,
     onRetry |-> <<>>, result |-> 0]

\* ------------------------------------------------------------ src/index.ts
\* The command line: --start=, --end=, --concurrency= ({} when absent; any
\* integer parseInt returns, zero and negative included) and the
\* --from-latest flag (lines 19-30).
DefaultCliConcurrency == 10
NoCli == [startBlock |-> {}, endBlock |-> {}, concurrency |-> {}, fromLatest |-> FALSE]
CliSets ==
    [startBlock : {{}} \cup {{h} : h \in Heights},
     endBlock : {{}} \cup {{h} : h \in Heights},
     concurrency : {{}} \cup {{c} : c \in Concurrencies},
     fromLatest : BOOLEAN]

\* The options main() passes to indexer.index (lines 87-90): startBlock is
\* userStartBlock; --from-latest only enters actualStartBlock (lines 65-75),
\* which is handed to the dashboard.
MainOptions(args) ==
    [startBlock |-> args.startBlock,
     endBlock |-> args.endBlock,
     concurrency |-> Field(args.concurrency, DefaultCliConcurrency)]

\* ------------------------------------------- the success scan (indexer.ts)
\* An event record is [phase, kind, decodable]: phase is the extrinsic index
\* of an ApplyExtrinsic phase or NotApply for any other phase; kind tells
\* ExtrinsicSuccess and ExtrinsicFailed from every other event; decodable is
\* whether event.data[0].toString() returns (with DispatchErrorText) or throws.
NotApply == 0 - 1
DispatchErrorText == "BadOrigin"
NoErrorField == "undefined"
NoScan == [events |-> <<>>, index |-> 0, done |-> FALSE, success |-> FALSE,
           error |-> NoErrorField]
EventRecords ==
    [phase : {NotApply} \cup (0..MaxTxIndex), kind : {"ExtrinsicSuccess", "other"},
     decodable : {TRUE}]
    \cup [phase : {NotApply} \cup (0..MaxTxIndex), kind : {"ExtrinsicFailed"},
          decodable : BOOLEAN]
EventLists == UNION {[1..n -> EventRecords] : n \in 0..MaxEvents}

\* phase.isApplyExtrinsic && phase.asApplyExtrinsic.toNumber() === index (line 229).
AppliesToAny(record, index) == record.phase # NotApply
AppliesTo(record, index) == record.phase # NotApply /\ record.phase = index

\* event.data[0].toString(), or 'Unknown error' when that throws (lines 235-240).
ExtractError(record) == IF record.decodable THEN DispatchErrorText ELSE "Unknown error"

\* The for loop over eventsArray (lines 225-243), from success = false and
\* error = undefined.
RECURSIVE StatusScan(_, _, _, _)
StatusScan(eventsArray, index, success, error) ==
    IF eventsArray = <<>> THEN [success |-> success, error |-> error]
    ELSE LET record == Head(eventsArray)
         IN IF AppliesTo(record, index) /\ record.kind = "ExtrinsicSuccess"
            THEN StatusScan(Tail(eventsArray), index, TRUE, error)
            ELSE IF AppliesTo(record, index) /\ record.kind = "ExtrinsicFailed"
            THEN StatusScan(Tail(eventsArray), index, FALSE, ExtractError(record))
            ELSE StatusScan(Tail(eventsArray), index, success, error)

\* --------------------------------------- argument decoding (indexer.ts)
\* The declared arguments of a call are meta.args; argument k is named k and
\* carries a raw value; toHuman of a raw value is its human form, or throws.
\* `meta` is whether extrinsic.meta.args can be read at all.
ArgValues == {"0x01", "0x02"}
ToHuman(raw) == <<"human", raw>>
NoDecode == [meta |-> TRUE, declared |-> <<>>, done |-> FALSE, pushed |-> FALSE,
             args |-> <<>>]
DeclaredArgs == UNION {[1..n -> [raw : ArgValues, decodes : BOOLEAN]] : n \in 0..MaxArgs}

\* const args = {}; try { meta.args.forEach(... args[argName] = argValue.toHuman()) }
\* catch (e) {} (lines 211-222): args is filled in place, one argument at a
\* time, and the catch block leaves it as it is.
RECURSIVE DecodeArgs(_, _, _)
DecodeArgs(declared, argIndex, args) ==
    IF argIndex > Len(declared) THEN args
    ELSE IF ~declared[argIndex].decodes THEN args
    ELSE DecodeArgs(declared, argIndex + 1,
                    Append(args, ToHuman(declared[argIndex].raw)))

\* ------------------------------------------------------------- the store
\* ensureIndexes: unique index on blocks.number, on extrinsics (blockNumber,
\* extrinsicIndex) and on events (blockNumber, eventIndex): an insert of a
\* key that is present is rejected with a duplicate-key error.
DuplicateKeyNever(coll, h) == FALSE

DuplicateKey(coll, h) == coll[h] > 0

\* findMissingBlocks: the persisted block numbers, ascending.
RECURSIVE IndexedBlocks(_, _)
IndexedBlocks(coll, h) ==
    IF h \notin DOMAIN coll THEN <<>>
    ELSE [i \in 1..coll[h] |-> h] \o IndexedBlocks(coll, h + 1)

RECURSIVE GapScanOffByOne(_, _, _)
GapScanOffByOne(nums, expectedBlock, missingRanges) ==
    IF nums = <<>> THEN missingRanges
    ELSE LET n == Head(nums)
             ranges == IF n > expectedBlock
                       THEN Append(missingRanges, [start |-> expectedBlock, end |-> n])
                       ELSE missingRanges
         IN GapScanOffByOne(Tail(nums), n + 1, ranges)

\* findMissingBlocks: the for loop over indexedBlocks.
RECURSIVE GapScan(_, _, _)
GapScan(nums, expectedBlock, missingRanges) ==
    IF nums = <<>> THEN missingRanges
    ELSE LET n == Head(nums)
             ranges == IF n > expectedBlock
                       THEN Append(missingRanges, [start |-> expectedBlock, end |-> n - 1])
                       ELSE missingRanges
         IN GapScan(Tail(nums), n + 1, ranges)

FindMissingBlocksNoTrailing(coll, sp) ==
    IF sp = {} \/ The(sp).lastIndexedBlock = 0 THEN <<>>
    ELSE LET nums == IndexedBlocks(coll, 0)
         IN IF nums = <<>> THEN << [start |-> 0, end |-> The(sp).lastIndexedBlock] >>
            ELSE GapScan(nums, 0, <<>>)

FindMissingBlocksScansAtZero(coll, sp) ==
    IF sp = {} THEN <<>>
    ELSE LET nums == IndexedBlocks(coll, 0)
             last == The(sp).lastIndexedBlock
         IN IF nums = <<>> THEN << [start |-> 0, end |-> last] >>
            ELSE LET gaps == GapScan(nums, 0, <<>>)
                     lastIndexedBlock == nums[Len(nums)]
                 IN IF lastIndexedBlock < last
                    THEN Append(gaps, [start |-> lastIndexedBlock + 1, end |-> last])
                    ELSE gaps

FindMissingBlocks(coll, sp) ==
    IF sp = {} \/ The(sp).lastIndexedBlock = 0 THEN <<>>
    ELSE LET nums == IndexedBlocks(coll, 0)
             last == The(sp).lastIndexedBlock
         IN IF nums = <<>> THEN << [start |-> 0, end |-> last] >>
            ELSE LET gaps == GapScan(nums, 0, <<>>)
                     lastIndexedBlock == nums[Len(nums)]
                 IN IF lastIndexedBlock < last
                    THEN Append(gaps, [start |-> lastIndexedBlock + 1, end |-> last])
                    ELSE gaps

\* updateScanProgress: upsert of the chain's single document.
ProgressDoc(last, complete) ==
    [lastIndexedBlock |-> last,
     blocksIndexed |-> blocksIndexed,
     extrinsicsIndexed |-> extrinsicsIndexed,
     eventsIndexed |-> eventsIndexed,
     isComplete |-> complete,
     targetEndBlock |-> endBlock]

\* ------------------------------------------------------ range resolution
ResolveEnd(opts, tip) == IF opts.endBlock # {} THEN The(opts.endBlock) ELSE tip

ResolveStartProgressFirst(opts, sp, end) ==
    IF sp # {} /\ The(sp).lastIndexedBlock < end THEN The(sp).lastIndexedBlock + 1
    ELSE IF opts.startBlock # {} THEN The(opts.startBlock)
    ELSE 0

ResolveStartAtFirstGap(opts, sp, end) ==
    IF FindMissingBlocks(blocks, sp) # <<>> THEN FindMissingBlocks(blocks, sp)[1].start
    ELSE IF opts.startBlock # {} THEN The(opts.startBlock)
    ELSE IF sp # {} /\ The(sp).lastIndexedBlock < end THEN The(sp).lastIndexedBlock + 1
    ELSE 0

ResolveStart(opts, sp, end) ==
    IF opts.startBlock # {} THEN The(opts.startBlock)
    ELSE IF sp # {} /\ The(sp).lastIndexedBlock < end THEN The(sp).lastIndexedBlock + 1
    ELSE 0

Ended == {"idle", "returned", "rejected"}

OptionSets ==
    [startBlock : {{}} \cup {{h} : h \in Heights},
     endBlock : {{}} \cup {{h} : h \in Heights},
     concurrency : Concurrencies]

TypeOK ==
    /\ blocks \in [Heights -> Nat]
    /\ pc \in Ended \cup {"loop", "head", "insert", "progress", "callback", "catch"}
    /\ runs \in 0..MaxRuns

PipelineInit ==
    /\ blocks = [h \in Heights |-> 0]
    /\ extrinsics = [h \in Heights |-> 0]
    /\ events = [h \in Heights |-> 0]
    /\ scanProgress = {}
    /\ latestBlock \in Heights
    /\ pc = "idle"
    /\ options = [startBlock |-> {}, endBlock |-> {}, concurrency |-> 1]
    /\ startBlock = 0 /\ endBlock = 0 /\ currentBlock = 0
    /\ fetchQueue = <<>>
    /\ blockNum = 0
    /\ blocksIndexed = 0 /\ extrinsicsIndexed = 0 /\ eventsIndexed = 0
    /\ missingBlocks = <<>>
    /\ thrown = "none"
    /\ rejectedWith = "none"
    /\ log = <<>>
    /\ skipped = {}
    /\ prevSkipped = {}
    /\ prevFailed = {}
    /\ startProgress = {}
    /\ runs = 0

Init ==
    /\ PipelineInit
    /\ classified = NoClassification
    /\ retry = NoRetry
    /\ cli = NoCli
    /\ scan = NoScan
    /\ decode = NoDecode

\* index(): everything up to the fetch loop (lines 98-155).
Index(opts) ==
    /\ pc \in Ended
    /\ runs < MaxRuns
    /\ LET end == ResolveEnd(opts, latestBlock)
           start == ResolveStart(opts, scanProgress, end)
       IN /\ endBlock' = end
          /\ startBlock' = start
          /\ currentBlock' = start
    /\ missingBlocks' = FindMissingBlocks(blocks, scanProgress)
    /\ blocksIndexed' = IF scanProgress = {} THEN 0 ELSE The(scanProgress).blocksIndexed
    /\ extrinsicsIndexed' = IF scanProgress = {} THEN 0 ELSE The(scanProgress).extrinsicsIndexed
    /\ eventsIndexed' = IF scanProgress = {} THEN 0 ELSE The(scanProgress).eventsIndexed
    /\ options' = opts
    /\ fetchQueue' = <<>>
    /\ thrown' = "none"
    /\ rejectedWith' = "none"
    /\ log' = <<>>
    /\ prevSkipped' = skipped
    /\ skipped' = {}
    /\ prevFailed' = IF pc = "rejected" /\ thrown \in {"duplicate", "insert", "progress"}
                         /\ opts = options
                      THEN {blockNum} ELSE {}
    /\ startProgress' = scanProgress
    /\ runs' = runs + 1
    /\ pc' = "loop"
    /\ UNCHANGED <<store, latestBlock, blockNum, utils>>

\* index() where api.rpc.chain.getHeader() (line 128) or api.rpc.system.chain()
\* (line 146) throws a network error: neither call is wrapped in
\* retryOnNetworkError, so the error leaves index() before the range is
\* logged. Progress and missing ranges were already read (lines 107-111).
IndexNetworkError ==
    /\ pc \in Ended
    /\ runs < MaxRuns
    /\ missingBlocks' = FindMissingBlocks(blocks, scanProgress)
    /\ fetchQueue' = <<>>
    /\ thrown' = "none"
    /\ rejectedWith' = "network"
    /\ log' = <<>>
    /\ prevSkipped' = skipped
    /\ skipped' = {}
    /\ prevFailed' = {}
    /\ startProgress' = scanProgress
    /\ runs' = runs + 1
    /\ pc' = "rejected"
    /\ UNCHANGED <<store, latestBlock, options, startBlock, endBlock, currentBlock,
                   blocksIndexed, extrinsicsIndexed, eventsIndexed, blockNum, utils>>

FillCountNoWindow(queueLen, concurrency, cur, end) ==
    IF end - cur + 1 <= 0 THEN 0 ELSE end - cur + 1

\* The inner while loop (lines 159-162): how many fetches it issues.
FillCount(queueLen, concurrency, cur, end) ==
    LET room == concurrency - queueLen
        left == end - cur + 1
    IN IF room <= 0 \/ left <= 0 THEN 0 ELSE IF room < left THEN room ELSE left

\* fetchQueue.shift() (line 166): the position of the window that is awaited.
TakeFirstSettled(queue) ==
    IF \E i \in 1..Len(queue) : queue[i].st # "pending"
    THEN CHOOSE i \in 1..Len(queue) :
            /\ queue[i].st # "pending"
            /\ \A j \in 1..(i - 1) : queue[j].st = "pending"
    ELSE 1
TakeIndex(queue) == 1

\* lastIndexedBlock written by the catch block (line 328).
PinnedBlockSame(h) == h
PinnedBlock(h) == h - 1

Remove(queue, i) == [j \in 1..(Len(queue) - 1) |-> IF j < i THEN queue[j] ELSE queue[j + 1]]

\* History of the store operations and callback invocations of the invocation.
Logged(op, h, v, ok) == Append(log, [op |-> op, h |-> h, v |-> v, ok |-> ok])

LoopTestOffByOne(cur, end) == cur <= end + 1

\* while (currentBlock <= endBlock) (line 157).
LoopTest(cur, end) == cur <= end

\* Outer loop test true, then the inner fill loop (lines 157-162).
LoopFill ==
    /\ pc = "loop"
    /\ LoopTest(currentBlock, endBlock)
    /\ LET n == FillCount(Len(fetchQueue), options.concurrency, currentBlock, endBlock)
       IN /\ fetchQueue' = fetchQueue \o
                 [i \in 1..n |-> [blockNum |-> currentBlock + i - 1, st |-> "pending"]]
          /\ currentBlock' = currentBlock + n
    /\ pc' = "head"
    /\ UNCHANGED <<store, latestBlock, invocation, utils, startBlock, endBlock, blockNum,
                   blocksIndexed, extrinsicsIndexed, eventsIndexed, missingBlocks,
                   thrown, rejectedWith, log, skipped>>

\* Outer loop test false (line 157): index() returns (lines 341-345).
LoopExit ==
    /\ pc = "loop"
    /\ ~LoopTest(currentBlock, endBlock)
    /\ pc' = "returned"
    /\ UNCHANGED <<store, latestBlock, invocation, utils, locals, fetchQueue, blockNum,
                   thrown, rejectedWith, log, skipped>>

\* if (fetchQueue.length > 0) is false (line 165): back to the loop test.
HeadEmpty ==
    /\ pc = "head"
    /\ fetchQueue = <<>>
    /\ pc' = "loop"
    /\ UNCHANGED <<store, latestBlock, invocation, utils, locals, fetchQueue, blockNum,
                   thrown, rejectedWith, log, skipped>>

\* fetchBlockData (lines 62-90) settles for the i-th fetch of the window:
\* with the block data, with null (pruned state), or with a rethrown error.
\* Network-transient errors are retried inside and leave the fetch pending.
Settle(i, outcome) ==
    /\ pc \notin Ended
    /\ i \in 1..Len(fetchQueue)
    /\ fetchQueue[i].st = "pending"
    /\ fetchQueue' = [fetchQueue EXCEPT ![i].st = outcome]
    /\ UNCHANGED <<store, latestBlock, invocation, utils, locals, pc, blockNum,
                   thrown, rejectedWith, log, skipped>>

\* await fetchQueue.shift() (lines 166-173), outside the try block.
AwaitHead ==
    /\ pc = "head"
    /\ fetchQueue # <<>>
    /\ LET i == TakeIndex(fetchQueue)
           fetched == fetchQueue[i]
       IN /\ fetched.st # "pending"
          /\ fetchQueue' = Remove(fetchQueue, i)
          /\ \/ /\ fetched.st = "ok"
                /\ blockNum' = fetched.blockNum
                /\ pc' = "insert"
                /\ UNCHANGED <<skipped, rejectedWith>>
             \/ /\ fetched.st = "pruned"
                /\ skipped' = skipped \cup {fetched.blockNum}
                /\ pc' = "loop"
                /\ UNCHANGED <<blockNum, rejectedWith>>
             \/ /\ fetched.st = "fatal"
                /\ blockNum' = fetched.blockNum
                /\ rejectedWith' = "fetch"
                /\ pc' = "rejected"
                /\ UNCHANGED skipped
    /\ UNCHANGED <<store, latestBlock, invocation, utils, locals, thrown, log>>

\* An error thrown while the documents are prepared (lines 176-285).
NormalizeThrow ==
    /\ pc = "insert"
    /\ thrown' = "normalize"
    /\ pc' = "catch"
    /\ UNCHANGED <<store, latestBlock, invocation, utils, locals, fetchQueue, blockNum,
                   rejectedWith, log, skipped>>

\* Promise.all of the three inserts (lines 288-292) and the counters (295-297).
\* fb, fx, fe: the block, extrinsics and events insert fails, with a
\* duplicate-key error when its key is present, or with a store error. An
\* insert that fails applies nothing; the inserts that do not fail are applied
\* even when Promise.all rejects, since they were all issued.
Insert(fb, fx, fe) ==
    /\ pc = "insert"
    /\ LET h == blockNum
           issueX == ExtrinsicCount(h) > 0
           issueE == EventCount(h) > 0
       IN /\ DuplicateKey(blocks, h) => fb
          /\ fx => issueX
          /\ fe => issueE
          /\ (issueX /\ DuplicateKey(extrinsics, h)) => fx
          /\ (issueE /\ DuplicateKey(events, h)) => fe
          /\ blocks' = IF fb THEN blocks ELSE [blocks EXCEPT ![h] = @ + 1]
          /\ extrinsics' = IF issueX /\ ~fx THEN [extrinsics EXCEPT ![h] = @ + 1] ELSE extrinsics
          /\ events' = IF issueE /\ ~fe THEN [events EXCEPT ![h] = @ + 1] ELSE events
          /\ log' = Logged("insert", h, h, ~(fb \/ fx \/ fe))
          /\ IF fb \/ fx \/ fe
             THEN /\ thrown' = IF /\ fb = DuplicateKey(blocks, h)
                                   /\ fx = (issueX /\ DuplicateKey(extrinsics, h))
                                   /\ fe = (issueE /\ DuplicateKey(events, h))
                                THEN "duplicate" ELSE "insert"
                  /\ pc' = "catch"
                  /\ UNCHANGED <<blocksIndexed, extrinsicsIndexed, eventsIndexed>>
             ELSE /\ blocksIndexed' = blocksIndexed + 1
                  /\ extrinsicsIndexed' = extrinsicsIndexed + ExtrinsicCount(h)
                  /\ eventsIndexed' = eventsIndexed + EventCount(h)
                  /\ pc' = "progress"
                  /\ UNCHANGED thrown
    /\ UNCHANGED <<scanProgress, latestBlock, invocation, utils, startBlock, endBlock,
                   currentBlock, missingBlocks, fetchQueue, blockNum, rejectedWith, skipped>>

IsCompleteNever(h, end) == FALSE

\* isComplete: blockNum === endBlock (line 308).
IsComplete(h, end) == h = end

\* updateScanProgress on the success path (lines 300-310).
UpdateProgress(fail) ==
    /\ pc = "progress"
    /\ log' = Logged("progress", blockNum, blockNum, ~fail)
    /\ IF fail
       THEN /\ thrown' = "progress"
            /\ pc' = "catch"
            /\ UNCHANGED scanProgress
       ELSE /\ scanProgress' = {ProgressDoc(blockNum, IsComplete(blockNum, endBlock))}
            /\ pc' = "callback"
            /\ UNCHANGED thrown
    /\ UNCHANGED <<blocks, extrinsics, events, latestBlock, invocation, utils, locals,
                   fetchQueue, blockNum, rejectedWith, skipped>>

\* onProgress (lines 313-321), inside the try block: the callback returns
\* (or none was supplied), or it throws.
Callback(throws) ==
    /\ pc = "callback"
    /\ log' = Logged("callback", blockNum, blockNum, ~throws)
    /\ IF throws
       THEN /\ thrown' = "callback"
            /\ pc' = "catch"
       ELSE /\ pc' = "loop"
            /\ UNCHANGED thrown
    /\ UNCHANGED <<store, latestBlock, invocation, utils, locals, fetchQueue, blockNum,
                   rejectedWith, skipped>>

\* The catch block (lines 322-337): progress pinned at blockNum - 1, rethrow.
\* When the upsert itself fails, its error is the one index() rejects with.
Catch(fail) ==
    /\ pc = "catch"
    /\ log' = Logged("pin", blockNum, PinnedBlock(blockNum), ~fail)
    /\ IF fail
       THEN /\ rejectedWith' = "pin"
            /\ UNCHANGED scanProgress
       ELSE /\ scanProgress' = {ProgressDoc(PinnedBlock(blockNum), FALSE)}
            /\ rejectedWith' = thrown
    /\ pc' = "rejected"
    /\ UNCHANGED <<blocks, extrinsics, events, latestBlock, invocation, utils, locals,
                   fetchQueue, blockNum, thrown, skipped>>

\* The chain grows while the indexer runs or rests.
AdvanceTip ==
    /\ latestBlock < MaxHeight
    /\ latestBlock' = latestBlock + 1
    /\ UNCHANGED <<store, pc, invocation, utils, locals, fetchQueue, blockNum, thrown,
                   rejectedWith, log, skipped>>

Next ==
    \/ \E opts \in OptionSets : Index(opts)
    \/ IndexNetworkError
    \/ LoopFill
    \/ LoopExit
    \/ HeadEmpty
    \/ \E i \in 1..MaxConc, outcome \in {"ok", "pruned", "fatal"} : Settle(i, outcome)
    \/ AwaitHead
    \/ NormalizeThrow
    \/ \E fb, fx, fe \in BOOLEAN : Insert(fb, fx, fe)
    \/ \E fail \in BOOLEAN : UpdateProgress(fail)
    \/ \E throws \in BOOLEAN : Callback(throws)
    \/ \E fail \in BOOLEAN : Catch(fail)
    \/ AdvanceTip

Spec == Init /\ [][Next]_vars

\* The steps of a running index(): every fetch settles (fetchBlockData
\* returns or throws) and every awaited store operation or callback returns
\* or throws, so a step that stays possible is eventually taken. Nothing
\* obliges a caller to invoke index() again or the chain to grow.
Step ==
    \/ LoopFill
    \/ LoopExit
    \/ HeadEmpty
    \/ \E i \in 1..MaxConc, outcome \in {"ok", "pruned", "fatal"} : Settle(i, outcome)
    \/ AwaitHead
    \/ NormalizeThrow
    \/ \E fb, fx, fe \in BOOLEAN : Insert(fb, fx, fe)
    \/ \E fail \in BOOLEAN : UpdateProgress(fail)
    \/ \E throws \in BOOLEAN : Callback(throws)
    \/ \E fail \in BOOLEAN : Catch(fail)

LiveSpec == Init /\ [][Next]_vars /\ WF_vars(Step)

\* ------------------------------------------------- the program (index.ts)
\* main() run with one command line, and run again with the same command
\* line after it ended; the chain tip does not move meanwhile.
MainInit ==
    /\ PipelineInit
    /\ classified = NoClassification
    /\ retry = NoRetry
    /\ scan = NoScan
    /\ decode = NoDecode
    /\ cli \in CliSets

\* await indexer.index({startBlock: userStartBlock, ...}) (lines 87-90).
Main == Index(MainOptions(cli))

MainNext ==
    \/ Main
    \/ IndexNetworkError
    \/ LoopFill
    \/ LoopExit
    \/ HeadEmpty
    \/ \E i \in 1..(MaxHeight + 1), outcome \in {"ok", "pruned", "fatal"} : Settle(i, outcome)
    \/ AwaitHead
    \/ NormalizeThrow
    \/ \E fb, fx, fe \in BOOLEAN : Insert(fb, fx, fe)
    \/ \E fail \in BOOLEAN : UpdateProgress(fail)
    \/ \E throws \in BOOLEAN : Callback(throws)
    \/ \E fail \in BOOLEAN : Catch(fail)

MainSpec == MainInit /\ [][MainNext]_vars

\* ------------------------------------------ findMissingBlocks on its own
\* Any set of persisted heights and any progress record, then one call.
pipeline == <<store, latestBlock, pc, invocation, locals, fetchQueue, blockNum,
              thrown, rejectedWith, log, skipped>>
GapHeights == 0..GapMaxHeight
GapProgress(last) ==
    [lastIndexedBlock |-> last, blocksIndexed |-> 0, extrinsicsIndexed |-> 0,
     eventsIndexed |-> 0, isComplete |-> FALSE, targetEndBlock |-> GapMaxHeight]

GapInit ==
    /\ blocks \in [GapHeights -> {0, 1}]
    /\ extrinsics = [h \in GapHeights |-> 0]
    /\ events = [h \in GapHeights |-> 0]
    /\ scanProgress \in {{}} \cup {{GapProgress(last)} : last \in (0 - 1)..GapMaxHeight}
    /\ latestBlock = GapMaxHeight
    /\ pc = "idle"
    /\ options = [startBlock |-> {}, endBlock |-> {}, concurrency |-> 1]
    /\ startBlock = 0 /\ endBlock = 0 /\ currentBlock = 0
    /\ fetchQueue = <<>>
    /\ blockNum = 0
    /\ blocksIndexed = 0 /\ extrinsicsIndexed = 0 /\ eventsIndexed = 0
    /\ missingBlocks = <<>>
    /\ thrown = "none"
    /\ rejectedWith = "none"
    /\ log = <<>>
    /\ skipped = {}
    /\ prevSkipped = {}
    /\ prevFailed = {}
    /\ startProgress = {}
    /\ runs = 0
    /\ classified = NoClassification
    /\ retry = NoRetry
    /\ cli = NoCli
    /\ scan = NoScan
    /\ decode = NoDecode

\* await this.db.findMissingBlocks(this.chainId) (indexer.ts line 111).
FindMissing ==
    /\ pc = "idle"
    /\ missingBlocks' = FindMissingBlocks(blocks, scanProgress)
    /\ pc' = "gaps"
    /\ UNCHANGED <<store, latestBlock, invocation, utils, startBlock, endBlock,
                   currentBlock, blocksIndexed, extrinsicsIndexed, eventsIndexed,
                   fetchQueue, blockNum, thrown, rejectedWith, log, skipped>>

GapNext == FindMissing

GapSpec == GapInit /\ [][GapNext]_vars

\* ------------------------------------------ argument decoding on its own
\* Any declared argument list of one extrinsic, then the body of the
\* forEach callback up to extrinsicDocs.push (lines 205-262).
ArgsInit ==
    /\ PipelineInit
    /\ latestBlock = 0
    /\ classified = NoClassification
    /\ retry = NoRetry
    /\ cli = NoCli
    /\ scan = NoScan
    /\ decode \in {[NoDecode EXCEPT !.meta = m, !.declared = d] :
                      m \in BOOLEAN, d \in DeclaredArgs}

PushExtrinsicDoc ==
    /\ ~decode.done
    /\ decode' = [decode EXCEPT
                    !.done = TRUE,
                    !.args = IF decode.meta THEN DecodeArgs(decode.declared, 1, <<>>)
                             ELSE <<>>,
                    !.pushed = TRUE]
    /\ UNCHANGED <<pipeline, classified, retry, cli, scan>>

ArgsNext == PushExtrinsicDoc

ArgsSpec == ArgsInit /\ [][ArgsNext]_vars

\* ----------------------------------------------- the success scan on its own
\* Any event list of a block and any extrinsic index, then the scan that
\* fills success and error of the extrinsic document.
StatusInit ==
    /\ PipelineInit
    /\ latestBlock = 0
    /\ classified = NoClassification
    /\ retry = NoRetry
    /\ cli = NoCli
    /\ scan \in {[NoScan EXCEPT !.events = es, !.index = i] :
                    es \in EventLists, i \in 0..MaxTxIndex}
    /\ decode = NoDecode

ScanStatus ==
    /\ ~scan.done
    /\ LET r == StatusScan(scan.events, scan.index, FALSE, NoErrorField)
       IN scan' = [scan EXCEPT !.done = TRUE, !.success = r.success, !.error = r.error]
    /\ UNCHANGED <<pipeline, classified, retry, cli, decode>>

StatusNext == ScanStatus

StatusSpec == StatusInit /\ [][StatusNext]_vars

\* ------------------------------------------------ the classifiers on their own
ClassifierInit ==
    /\ PipelineInit
    /\ latestBlock = 0
    /\ retry = NoRetry
    /\ cli = NoCli
    /\ scan = NoScan
    /\ decode = NoDecode
    /\ classified \in {[NoClassification EXCEPT !.error = e] : e \in Errors}

\* isNetworkError(error) and isStatePrunedError(error).
Classify ==
    /\ ~classified.done
    /\ classified' = [classified EXCEPT !.done = TRUE,
                                        !.network = isNetworkError(classified.error),
                                        !.pruned = isStatePrunedError(classified.error)]
    /\ UNCHANGED <<pipeline, retry, cli, scan, decode>>

ClassifierNext == Classify

ClassifierSpec == ClassifierInit /\ [][ClassifierNext]_vars

\* ------------------------------------------------- retryWithBackoff on its own
\* A call of retryWithBackoff(fn, options), of retryOnNetworkError(fn) or of
\* fetchBlockData(blockNum); fn fails with the errors below or succeeds, and
\* the k-th invocation of fn returns k.
RetryOptionSets ==
    [maxAttempts : {{}} \cup {{n} : n \in 1..MaxAttemptsOption},
     initialDelay : {{}} \cup {{d} : d \in 1..MaxDelayOption},
     maxDelay : {{}} \cup {{d} : d \in 1..MaxDelayOption},
     backoffMultiplier : {{}} \cup {{m} : m \in 0..MaxMultiplierOption},
     shouldRetry : {{}, {"isNetworkError"}}]
RetryCalls ==
    {[caller |-> "retryWithBackoff", options |-> o] : o \in RetryOptionSets}
    \cup {[caller |-> c, options |-> NetworkRetryOptions] :
              c \in {"retryOnNetworkError", "fetchBlockData"}}
ErrorSamples ==
    {[message |-> {"no response received"}, code |-> ""],
     [message |-> {"state already discarded"}, code |-> PrunedCode],
     [message |-> {"unknown block", "timeout"}, code |-> ""],
     [message |-> {}, code |-> "-32603"]}

\* const opts = {...}; let attempt = 0; let delay = opts.initialDelay (lines 101-103).
StartRetry(call) ==
    LET opts == MergeOptions(call.options)
    IN [caller |-> call.caller, opts |-> opts, pc |-> "call", attempt |-> 0,
        delay |-> opts.initialDelay, calls |-> 0, errors |-> <<>>, waits |-> <<>>,
        onRetry |-> <<>>, result |-> 0]

RetryInit ==
    /\ PipelineInit
    /\ latestBlock = 0
    /\ classified = NoClassification
    /\ cli = NoCli
    /\ scan = NoScan
    /\ decode = NoDecode
    /\ retry \in {StartRetry(call) : call \in RetryCalls}

Min(a, b) == IF a <= b THEN a ELSE b

ShouldRetryAlways(opts, error) == TRUE

\* opts.shouldRetry(error) (line 112).
ShouldRetry(opts, error) ==
    IF opts.shouldRetry = "isNetworkError" THEN isNetworkError(error) ELSE TRUE

AtMaxAttemptsOneMore(opts, attempt) ==
    opts.maxAttempts # {} /\ attempt > The(opts.maxAttempts)

\* attempt >= opts.maxAttempts (line 117).
AtMaxAttempts(opts, attempt) ==
    opts.maxAttempts # {} /\ attempt >= The(opts.maxAttempts)

NextDelayUncapped(opts, delay) == delay

\* const nextDelay = Math.min(delay, opts.maxDelay) (line 123).
NextDelay(opts, delay) == Min(delay, opts.maxDelay)

\* delay = Math.min(delay * opts.backoffMultiplier, opts.maxDelay) (line 139).
Backoff(opts, delay) == Min(delay * opts.backoffMultiplier, opts.maxDelay)

\* return await fn() (line 107).
AttemptSucceeds ==
    /\ retry.pc = "call"
    /\ retry' = [retry EXCEPT !.calls = @ + 1, !.result = retry.calls + 1,
                              !.pc = "resolved"]
    /\ UNCHANGED <<pipeline, classified, cli, scan, decode>>

\* fn() rejects with error: the catch block up to the sleep (lines 108-136).
AttemptFails(error) ==
    /\ retry.pc = "call"
    /\ Len(retry.errors) < MaxFailures
    /\ LET attempt == retry.attempt + 1
           nextDelay == NextDelay(retry.opts, retry.delay)
           failed == [retry EXCEPT !.calls = @ + 1, !.attempt = attempt,
                                   !.errors = Append(@, error)]
       IN retry' = IF ~ShouldRetry(retry.opts, error) \/ AtMaxAttempts(retry.opts, attempt)
                   THEN [failed EXCEPT !.pc = "thrown"]
                   ELSE [failed EXCEPT !.waits = Append(@, nextDelay),
                                       !.onRetry = Append(@, [attempt |-> attempt,
                                                              delay |-> nextDelay]),
                                       !.pc = "sleep"]
    /\ UNCHANGED <<pipeline, classified, cli, scan, decode>>

\* The sleep ends; the delay is updated and the loop calls fn again
\* (lines 136-139).
Wake ==
    /\ retry.pc = "sleep"
    /\ retry' = [retry EXCEPT !.delay = Backoff(retry.opts, retry.delay), !.pc = "call"]
    /\ UNCHANGED <<pipeline, classified, cli, scan, decode>>

\* fetchBlockData's catch (indexer.ts lines 81-89): null for a pruned-state
\* error, else rethrow.
FetchCatch ==
    /\ retry.caller = "fetchBlockData"
    /\ retry.pc = "thrown"
    /\ retry' = [retry EXCEPT !.pc = IF isStatePrunedError(retry.errors[Len(retry.errors)])
                                     THEN "null" ELSE "rethrown"]
    /\ UNCHANGED <<pipeline, classified, cli, scan, decode>>

RetryNext ==
    \/ AttemptSucceeds
    \/ \E error \in ErrorSamples : AttemptFails(error)
    \/ Wake
    \/ FetchCatch

RetrySpec == RetryInit /\ [][RetryNext]_vars
\* ------------------------------------------------------------ properties
Last(s) == s[Len(s)]
Running == pc \notin Ended
InsertsAt == {i \in 1..Len(log) : log[i].op = "insert"}
WritesAt == {i \in 1..Len(log) : log[i].op \in {"progress", "pin"} /\ log[i].ok}
PinsAt == {i \in 1..Len(log) : log[i].op = "pin"}
InRanges(h, ranges) == \E i \in 1..Len(ranges) : ranges[i].start <= h /\ h <= ranges[i].end
FullyPersisted(h) ==
    /\ blocks[h] > 0
    /\ ExtrinsicCount(h) > 0 => extrinsics[h] > 0
    /\ EventCount(h) > 0 => events[h] > 0
Processed(h) == h \in skipped \/ \E i \in 1..Len(log) : log[i].h = h
MaxPersisted == IF \E h \in Heights : blocks[h] > 0
                THEN CHOOSE h \in Heights : blocks[h] > 0 /\ \A g \in Heights : blocks[g] > 0 => g <= h
                ELSE 0 - 1

\* C1: for every concurrency and every order in which the fetches settle, the
\* heights whose inserts one invocation issues are strictly increasing, and
\* between the inserts of two heights the progress upsert of the lower one has
\* completed; the height being persisted is above every height already handled.
C1_PersistInHeightOrder ==
    /\ \A i, j \in InsertsAt : i < j =>
          /\ log[i].h < log[j].h
          /\ log[i].ok
          /\ \E k \in (i + 1)..(j - 1) :
                log[k].op = "progress" /\ log[k].ok /\ log[k].h = log[i].h
    /\ pc \in {"insert", "progress", "callback", "catch"} =>
          \A i \in 1..Len(log) : log[i].h < blockNum \/ (log[i].h = blockNum /\ pc # "insert")
C1_Witness ==
    /\ options.concurrency >= 2
    /\ pc = "progress"
    /\ Cardinality(InsertsAt) >= 2
    /\ fetchQueue # <<>> /\ fetchQueue[1].st = "ok"

\* C2: with a progress record holding lastIndexedBlock = k and no explicit
\* start height, the invocation starts at k + 1, also when k >= endBlock.
C2_ResumesAfterProgress ==
    (Running /\ startProgress # {} /\ options.startBlock = {}) =>
        startBlock = The(startProgress).lastIndexedBlock + 1

\* C3: the progress record never names a height whose block, transaction and
\* event records are not all in the store.
C3_ProgressNamesPersistedHeight ==
    scanProgress # {} =>
        /\ The(scanProgress).lastIndexedBlock \in Heights
        /\ FullyPersisted(The(scanProgress).lastIndexedBlock)

\* C4: an invocation that repeats, with the same options, one that failed while
\* persisting height h does not fail again on h when the store is healthy (a
\* duplicate-key rejection is the answer of a healthy store).
C4_RerunPassesFailedHeight ==
    (pc = "rejected" /\ prevFailed # {} /\ rejectedWith = "duplicate") =>
        blockNum \notin prevFailed

\* C5 (as claimed): after an error thrown while normalizing or persisting height
\* h, exactly one further progress upsert is performed, with lastIndexedBlock =
\* h - 1 and isComplete = false, index() rejects with that error, and no record
\* above h was inserted.
C5_FailurePinsAndRethrows ==
    (pc = "rejected" /\ thrown # "none") =>
        /\ Cardinality(PinsAt) = 1
        /\ Last(log).op = "pin" /\ Last(log).ok /\ Last(log).v = blockNum - 1
        /\ scanProgress # {}
        /\ The(scanProgress).lastIndexedBlock = blockNum - 1
        /\ ~The(scanProgress).isComplete
        /\ rejectedWith = thrown
        /\ \A i \in InsertsAt : log[i].h <= blockNum

\* C5 (amended): after such an error exactly one further progress upsert is
\* issued, with lastIndexedBlock = h - 1 and isComplete = false; when it succeeds
\* the record holds these values and index() rejects with the caught error, when
\* it fails index() rejects with the upsert's error; no record above h was inserted.
C5_FailurePinIssuedOnce ==
    (pc = "rejected" /\ thrown # "none") =>
        /\ Cardinality(PinsAt) = 1
        /\ Last(log).op = "pin" /\ Last(log).v = blockNum - 1
        /\ Last(log).ok =>
              /\ scanProgress # {}
              /\ The(scanProgress).lastIndexedBlock = blockNum - 1
              /\ ~The(scanProgress).isComplete
              /\ rejectedWith = thrown
        /\ ~Last(log).ok => rejectedWith = "pin"
        /\ \A i \in InsertsAt : log[i].h <= blockNum
C5_Witness ==
    /\ pc = "rejected" /\ thrown = "insert" /\ rejectedWith = "insert"
    /\ blockNum > 0
    /\ fetchQueue # <<>>
    /\ scanProgress # {} /\ The(scanProgress).lastIndexedBlock = blockNum - 1

\* C6: a fetch of height h that fails with a fatal error is followed by a
\* progress upsert with lastIndexedBlock = h - 1 before index() rejects.
C6_FetchErrorPinsProgress ==
    (pc = "rejected" /\ rejectedWith = "fetch") =>
        /\ log # <<>>
        /\ Last(log).op = "pin" /\ Last(log).h = blockNum /\ Last(log).v = blockNum - 1

\* C7: the lastIndexedBlock values one invocation writes never decrease.
C7_WrittenProgressNeverDecreases ==
    \A i, j \in WritesAt : i < j => log[i].v <= log[j].v

\* C8: whatever the concurrency, when the range is not exhausted the fill
\* step leaves at least one fetch in the window.
C8_WindowAdmitsAFetch ==
    pc = "head" => fetchQueue # <<>>

\* C9: a height skipped as pruned gets no insert and no progress upsert, and
\* when index() has returned the height after it, if in the range, was processed.
C9_PrunedSkipContinues ==
    \A h \in skipped :
        /\ \A i \in 1..Len(log) : log[i].h # h
        /\ pc # "rejected" \/ blockNum # h
        /\ (pc = "returned" /\ h < endBlock) => Processed(h + 1)

\* C10 (as claimed): every height skipped as pruned in the previous invocation
\* lies inside a range findMissingBlocks reports at the start of this one.
C10_PrunedHeightsReported ==
    runs >= 2 => \A h \in prevSkipped : InRanges(h, missingBlocks)

\* C10 (amended): a height skipped as pruned in the previous invocation that
\* has no block record lies inside a reported range at the start of this one
\* when the progress record then holds a lastIndexedBlock other than 0 and the
\* height is at most the larger of lastIndexedBlock and the highest persisted
\* height.
C10_PrunedHeightsBelowFrontierReported ==
    (Running /\ log = <<>> /\ runs >= 2) =>
        \A h \in prevSkipped :
            ( /\ blocks[h] = 0
              /\ scanProgress # {}
              /\ The(scanProgress).lastIndexedBlock # 0
              /\ (h <= The(scanProgress).lastIndexedBlock \/ h <= MaxPersisted) )
            => InRanges(h, missingBlocks)
C10_Witness ==
    /\ Running /\ log = <<>> /\ runs >= 2
    /\ \E h \in prevSkipped : blocks[h] = 0 /\ h > 0 /\ h < MaxPersisted /\ InRanges(h, missingBlocks)

\* C11: an invocation with an explicit start height above the end height
\* issues no fetch, no insert, no progress upsert and no callback, and
\* returns without error: once its range is resolved it only tests the loop
\* and returns, with the store as it found it.
C11_EmptyRangeDoesNothing ==
    (/\ runs >= 1
     /\ rejectedWith # "network"
     /\ options.startBlock # {}
     /\ startBlock > endBlock)
    => /\ pc \in {"loop", "returned"}
       /\ fetchQueue = <<>>
       /\ log = <<>>
       /\ skipped = {}
       /\ scanProgress = startProgress
C11_Witness ==
    /\ pc = "returned"
    /\ options.startBlock # {}
    /\ options.endBlock # {}
    /\ startBlock > endBlock
    /\ log = <<>>

\* C12: while every height of the resolved range is fully persisted, no step
\* of the invocation changes the blocks, extrinsics or events collection:
\* re-indexing a fully persisted range leaves the three collections exactly
\* as they were.
C12_RerunLeavesCollections ==
    [][(Running /\ \A h \in startBlock..endBlock : FullyPersisted(h))
        => UNCHANGED <<blocks, extrinsics, events>>]_vars
C12_Witness ==
    /\ runs >= 2
    /\ pc = "catch"
    /\ thrown = "duplicate"
    /\ startBlock <= endBlock
    /\ \A h \in startBlock..endBlock : FullyPersisted(h)
    /\ Last(log).op = "insert" /\ Last(log).h = blockNum

\* C13: when index() returns normally, every height of the resolved range
\* that was not skipped as pruned has exactly one block record together with
\* its transaction and event records.
C13_ReturnedMeansRangePersisted ==
    pc = "returned" =>
        \A h \in startBlock..endBlock :
            h \notin skipped => (blocks[h] = 1 /\ FullyPersisted(h))

\* C15: a network-transient error from a remote call of index() (chain-tip
\* read, chain-name read, per-height fetch calls) never makes index() reject.
C15_NetworkErrorNeverRejects == ~(pc = "rejected" /\ rejectedWith = "network")

\* C14: for every set S of persisted heights and every lastIndexedBlock
\* L > 0, findMissingBlocks returns, in ascending order, exactly the maximal
\* runs of consecutive heights of [0, max(max S, L)] that are not in S; for
\* S = {0,1,2,5,6,9} and L = 9 it returns [3,4] and [7,8].
GapPersisted == {h \in DOMAIN blocks : blocks[h] > 0}
SetMax(S) == CHOOSE x \in S : \A y \in S : y <= x
C14_MissingRunsExact ==
    (pc = "gaps" /\ scanProgress # {} /\ The(scanProgress).lastIndexedBlock > 0) =>
        LET L == The(scanProgress).lastIndexedBlock
            top == IF GapPersisted = {} \/ SetMax(GapPersisted) < L
                   THEN L ELSE SetMax(GapPersisted)
            missing == (0..top) \ GapPersisted
            maximalRuns ==
                {r \in [start : 0..top, end : 0..top] :
                    /\ r.start <= r.end
                    /\ \A h \in r.start..r.end : h \in missing
                    /\ (r.start - 1) \notin missing
                    /\ (r.end + 1) \notin missing}
        IN /\ {missingBlocks[i] : i \in 1..Len(missingBlocks)} = maximalRuns
           /\ \A i \in 1..(Len(missingBlocks) - 1) :
                  missingBlocks[i].end < missingBlocks[i + 1].start
C14_Witness ==
    /\ pc = "gaps"
    /\ GapPersisted = {0, 1, 2, 5, 6, 9}
    /\ scanProgress # {} /\ The(scanProgress).lastIndexedBlock = 9
    /\ missingBlocks = << [start |-> 3, end |-> 4], [start |-> 7, end |-> 8] >>

\* C16: under retryOnNetworkError (also as used by fetchBlockData), as long
\* as every failure is a network error the call never throws, every failure
\* is followed by a wait of exactly 60000 ms and then by a new invocation of
\* the operation, and the call resolves with the result of the first
\* invocation that succeeds.
AllNetwork == \A i \in 1..Len(retry.errors) : isNetworkError(retry.errors[i])
UnderRetryOnNetworkError == retry.caller \in {"retryOnNetworkError", "fetchBlockData"}
C16_NetworkErrorsRetriedForever ==
    /\ []((UnderRetryOnNetworkError /\ AllNetwork) =>
            /\ retry.pc \in {"call", "sleep", "resolved"}
            /\ Len(retry.waits) = Len(retry.errors)
            /\ \A i \in 1..Len(retry.waits) : retry.waits[i] = 60000
            /\ retry.pc = "resolved" =>
                   /\ retry.calls = Len(retry.errors) + 1
                   /\ retry.result = retry.calls)
    /\ [][(UnderRetryOnNetworkError /\ retry.pc = "sleep") =>
             (retry'.pc = "call" /\ retry'.calls = retry.calls)]_vars
C16_Witness ==
    /\ retry.caller = "retryOnNetworkError"
    /\ retry.pc = "resolved"
    /\ Len(retry.errors) >= 2
    /\ AllNetwork
    /\ retry.result = Len(retry.errors) + 1

\* C17: no error is accepted by both isNetworkError and isStatePrunedError.
C17_ClassifiersDisjoint ==
    classified.done => ~(classified.network /\ classified.pruned)

\* C18: when an attempt of fetchBlockData fails with an error that
\* isStatePrunedError accepts, that attempt is the last one, no retry delay
\* is waited for it, and fetchBlockData resolves with null.
C18_PrunedErrorEndsFetch ==
    retry.caller = "fetchBlockData" =>
        \A i \in 1..Len(retry.errors) :
            isStatePrunedError(retry.errors[i]) =>
                /\ i = Len(retry.errors)
                /\ Len(retry.waits) = i - 1
                /\ retry.pc \in {"thrown", "null"}

\* C19 as stated: the first wait is d0 and each later wait is
\* min(previous wait * m, D), for every d0, m and D.
C19_FirstWaitIsInitialDelay ==
    \A i \in 1..Len(retry.waits) :
        retry.waits[i] = IF i = 1 THEN retry.opts.initialDelay
                         ELSE Min(retry.waits[i - 1] * retry.opts.backoffMultiplier,
                                  retry.opts.maxDelay)
\* C19 amended: the first wait is min(d0, D), the second is min(d0 * m, D),
\* and each later wait is min(previous wait * m, D).
C19_WaitsAreCapped ==
    \A i \in 1..Len(retry.waits) :
        retry.waits[i] =
            IF i = 1 THEN Min(retry.opts.initialDelay, retry.opts.maxDelay)
            ELSE IF i = 2 THEN Min(retry.opts.initialDelay * retry.opts.backoffMultiplier,
                                   retry.opts.maxDelay)
            ELSE Min(retry.waits[i - 1] * retry.opts.backoffMultiplier,
                     retry.opts.maxDelay)
C19_Witness ==
    /\ retry.caller = "retryWithBackoff"
    /\ retry.opts.initialDelay > retry.opts.maxDelay
    /\ retry.opts.backoffMultiplier >= 2
    /\ Len(retry.waits) >= 3

\* C20: an error the classifier rejects is rethrown at once: it is the last
\* failure of the call, no wait and no onRetry call follow it, and the
\* operation is not invoked again.
C20_RejectedErrorRethrownAtOnce ==
    \A i \in 1..Len(retry.errors) :
        (retry.opts.shouldRetry = "isNetworkError" /\ ~isNetworkError(retry.errors[i])) =>
            /\ i = Len(retry.errors)
            /\ retry.pc \in {"thrown", "null", "rethrown"}
            /\ retry.calls = i
            /\ Len(retry.waits) = i - 1
            /\ Len(retry.onRetry) = i - 1
C20_Witness ==
    /\ retry.caller = "retryWithBackoff"
    /\ retry.pc = "thrown"
    /\ retry.opts.shouldRetry = "isNetworkError"
    /\ retry.opts.maxAttempts = {}
    /\ Len(retry.errors) = 2
    /\ ~isNetworkError(retry.errors[2])
    /\ Len(retry.waits) = 1

\* C21: the progress callback is invoked exactly once for every height the
\* pipeline has finished, whether the height was persisted or skipped as
\* pruned.
CallbacksAt(h) == {i \in 1..Len(log) : log[i].op = "callback" /\ log[i].h = h}
Finished(h) ==
    \/ h \in skipped
    \/ \E i \in 1..Len(log) : log[i].op = "progress" /\ log[i].ok /\ log[i].h = h
C21_CallbackOncePerFinishedHeight ==
    pc \in {"loop", "returned"} =>
        \A h \in Heights : Finished(h) => Cardinality(CallbacksAt(h)) = 1

\* C22: a scan-progress upsert is issued after every height taken from the
\* head of the window, persisted, skipped or failed, before the next height
\* is taken (and before index() ends).
TakenHeights ==
    skipped \cup {log[i].h : i \in 1..Len(log)}
            \cup (IF rejectedWith = "fetch" THEN {blockNum} ELSE {})
C22_ProgressUpsertAfterEveryHeight ==
    pc \in {"loop", "returned", "rejected"} =>
        \A h \in TakenHeights :
            \E i \in 1..Len(log) : log[i].op \in {"progress", "pin"} /\ log[i].h = h

\* C23: started with --from-latest and no --start, the first height the
\* pipeline fetches is the chain tip, and no lower height is fetched,
\* whatever the stored progress record.
IssuedHeights == {fetchQueue[i].blockNum : i \in 1..Len(fetchQueue)} \cup TakenHeights
C23_FromLatestStartsAtTip ==
    (cli.fromLatest /\ cli.startBlock = {} /\ IssuedHeights # {}) =>
        /\ startBlock = latestBlock
        /\ \A h \in IssuedHeights : h >= latestBlock

\* C24: with concurrency c >= 1 the fetches issued and not yet taken from
\* the head of the window are at most c; fetches are issued in ascending
\* height order and no height of the range is issued twice: the window holds
\* consecutive heights of [startBlock, endBlock] ending just below
\* currentBlock, all above every height already taken.
C24_WindowBoundedAndAscending ==
    (runs >= 1 /\ rejectedWith # "network" /\ options.concurrency >= 1) =>
        /\ Len(fetchQueue) <= options.concurrency
        /\ \A i \in 1..Len(fetchQueue) :
              /\ fetchQueue[i].blockNum \in startBlock..endBlock
              /\ fetchQueue[i].blockNum = currentBlock - Len(fetchQueue) + i - 1
              /\ \A h \in TakenHeights : h < fetchQueue[i].blockNum
        /\ \A h \in TakenHeights : h \in startBlock..(currentBlock - 1)
C24_Witness ==
    /\ options.concurrency = 2
    /\ Len(fetchQueue) = 2
    /\ pc = "head"
    /\ TakenHeights # {}

C26_NoProgressNoRanges ==
    (pc = "gaps" /\ (scanProgress = {} \/ The(scanProgress).lastIndexedBlock = 0)) =>
        missingBlocks = <<>>
C26_Witness ==
    /\ pc = "gaps"
    /\ scanProgress # {}
    /\ The(scanProgress).lastIndexedBlock = 0
    /\ GapPersisted = {0, 2, 3}
    /\ missingBlocks = <<>>

\* C27: the gap-detection pass changes nothing: the step of index() that
\* holds it leaves the four collections unchanged, and the startBlock and
\* endBlock it chooses depend only on the options, the progress record and
\* the chain tip, whatever ranges the pass reports.
C27_GapPassIsAdvisory ==
    [][(pc \in Ended) =>
        (/\ UNCHANGED <<blocks, extrinsics, events, scanProgress>>
         /\ (pc' = "loop" =>
               (/\ endBlock' = (IF options'.endBlock # {} THEN The(options'.endBlock)
                                ELSE latestBlock)
                /\ startBlock' =
                      (IF options'.startBlock # {} THEN The(options'.startBlock)
                       ELSE IF scanProgress # {}
                               /\ The(scanProgress).lastIndexedBlock < endBlock'
                            THEN The(scanProgress).lastIndexedBlock + 1
                            ELSE 0))))]_vars
C27_Witness ==
    /\ pc = "loop"
    /\ log = <<>> /\ skipped = {} /\ fetchQueue = <<>>
    /\ options.startBlock = {}
    /\ missingBlocks # <<>>
    /\ startBlock > missingBlocks[1].start

\* C28: a progress upsert of the success path for height h carries
\* isComplete = true exactly when h is endBlock, and a progress upsert of the
\* failure path carries isComplete = false.
C28_CompleteOnlyAtEnd ==
    /\ pc = "callback" =>
          /\ scanProgress # {}
          /\ The(scanProgress).lastIndexedBlock = blockNum
          /\ The(scanProgress).isComplete <=> (blockNum = endBlock)
    /\ (pc = "rejected" /\ log # <<>> /\ Last(log).op = "pin" /\ Last(log).ok) =>
          /\ scanProgress # {}
          /\ The(scanProgress).lastIndexedBlock = blockNum - 1
          /\ ~The(scanProgress).isComplete
C28_Witness ==
    /\ pc = "callback"
    /\ startBlock < endBlock
    /\ blockNum = endBlock
    /\ The(scanProgress).isComplete
    /\ \E i \in 1..Len(log) : log[i].op = "progress" /\ log[i].ok /\ log[i].h < blockNum

\* C29 as stated: if the event list holds an apply-phase success event for
\* the extrinsic's index, success = true; if it holds an apply-phase failed
\* event for it, success = false with the extracted error string or
\* 'Unknown error'; if it holds neither, success = false with no error.
SuccessAt == {k \in 1..Len(scan.events) :
                 scan.events[k].phase = scan.index
                 /\ scan.events[k].kind = "ExtrinsicSuccess"}
FailedAt == {k \in 1..Len(scan.events) :
                scan.events[k].phase = scan.index
                /\ scan.events[k].kind = "ExtrinsicFailed"}
C30_SuccessHasNoError ==
    scan.done => ~(scan.success /\ scan.error # NoErrorField)

\* C31: when decoding any one of the declared arguments of a transaction
\* fails, the transaction document is still pushed, with an empty argument
\* mapping: no argument decoded before the failure remains in it.
SomeArgFails ==
    ~decode.meta \/ \E k \in 1..Len(decode.declared) : ~decode.declared[k].decodes
C31_FailedDecodeLeavesNoArgs ==
    (decode.done /\ SomeArgFails) => (decode.pushed /\ decode.args = <<>>)

\* C32: with maxAttempts = n >= 1 the operation is invoked at most n times;
\* when the n-th attempt fails with an error shouldRetry accepts, the call
\* ends by throwing that error, with no wait and no onRetry call for it.
C32_AtMostMaxAttempts ==
    retry.opts.maxAttempts # {} =>
        LET n == The(retry.opts.maxAttempts)
        IN /\ retry.calls <= n
           /\ Len(retry.errors) = n =>
                 /\ retry.pc \in {"thrown", "null", "rethrown"}
                 /\ Len(retry.waits) = n - 1
                 /\ Len(retry.onRetry) = n - 1
C32_Witness ==
    /\ retry.caller = "retryWithBackoff"
    /\ retry.opts.maxAttempts = {3}
    /\ retry.opts.shouldRetry = "isNetworkError"
    /\ Len(retry.errors) = 3
    /\ isNetworkError(retry.errors[3])
    /\ retry.pc = "thrown"
    /\ Len(retry.waits) = 2

\* C33: with no explicit start height, an invocation never leaves the
\* progress record's lastIndexedBlock lower than it was when the invocation
\* started, also when the stored value is at or above endBlock.
C33_ProgressNotLoweredByInvocation ==
    (options.startBlock = {} /\ startProgress # {} /\ rejectedWith # "network") =>
        /\ scanProgress # {}
        /\ The(scanProgress).lastIndexedBlock >= The(startProgress).lastIndexedBlock

\* C34: the lastIndexedBlock stored in the scan-progress record is never
\* negative, in every reachable state.
C34_LastIndexedBlockNotNegative ==
    scanProgress # {} => The(scanProgress).lastIndexedBlock >= 0

\* C35: every range findMissingBlocks returns has start <= end, the ranges
\* are pairwise disjoint and ascending, and none contains a persisted height,
\* for every progress record and store the pipeline produces.
C35_MissingRangesWellFormed ==
    (Running /\ log = <<>>) =>
        /\ \A i \in 1..Len(missingBlocks) :
              /\ missingBlocks[i].start <= missingBlocks[i].end
              /\ \A h \in Heights : InRanges(h, <<missingBlocks[i]>>) => blocks[h] = 0
        /\ \A i \in 1..(Len(missingBlocks) - 1) :
              missingBlocks[i].end < missingBlocks[i + 1].start

\* C36: starting from an empty store, whenever index() is between heights or
\* has ended, the progress record's blocksIndexed, extrinsicsIndexed and
\* eventsIndexed equal the numbers of block, transaction and event records in
\* the store.
RECURSIVE RecordsUpTo(_, _, _)
RecordsUpTo(coll, PerBatch(_), h) ==
    IF h < 0 THEN 0 ELSE coll[h] * PerBatch(h) + RecordsUpTo(coll, PerBatch, h - 1)
OnePerInsert(h) == 1
C36_CountersMatchStore ==
    (pc \in Ended \cup {"loop", "head"} /\ scanProgress # {}) =>
        /\ The(scanProgress).blocksIndexed = RecordsUpTo(blocks, OnePerInsert, MaxHeight)
        /\ The(scanProgress).extrinsicsIndexed
              = RecordsUpTo(extrinsics, ExtrinsicCount, MaxHeight)
        /\ The(scanProgress).eventsIndexed = RecordsUpTo(events, EventCount, MaxHeight)

\* C37: when index() returns normally over a non-empty range the progress
\* record has isComplete = true and lastIndexedBlock = endBlock, also when
\* heights of the range were skipped as pruned.
C37_ReturnedMeansComplete ==
    (pc = "returned" /\ startBlock <= endBlock) =>
        /\ scanProgress # {}
        /\ The(scanProgress).isComplete
        /\ The(scanProgress).lastIndexedBlock = endBlock

\* C38: for every concurrency >= 1 and every finite range, when every fetch
\* settles and every store operation returns, index() eventually ends: it
\* returns only after the last height of the range was taken from the window,
\* or it rejects with the first error met in height order (every height of
\* the range below the failing one was taken before).
C38_EndsAfterLastHeightOrFirstError ==
    /\ (Running /\ options.concurrency >= 1) ~> (pc \in Ended)
    /\ []((pc = "returned" /\ options.concurrency >= 1) =>
            \A h \in startBlock..endBlock : h \in TakenHeights)
    /\ []((pc = "rejected" /\ options.concurrency >= 1 /\ rejectedWith # "network") =>
            \A h \in startBlock..(blockNum - 1) :
                h \in skipped \/ \E i \in 1..Len(log) : log[i].h = h /\ log[i].ok)

====
